---- MODULE Spec2Model ----
(***************************************************************************)
(* A model of baseballpress.py: the extraction of one date's lineup page   *)
(* into DateGames -> Game -> Team -> Player objects and the flattening of  *)
(* that hierarchy into records.                                            *)
(*                                                                         *)
(* Text is a sequence of one-character strings.  A markup region is a      *)
(* record holding what the selectors of the code find in it: its           *)
(* get_text() and its selected sub-regions.  A Python value that may be    *)
(* None is a sequence of length at most one: None is <<>>, a value v is    *)
(* <<v>>.  A call that may raise returns Ok(value) or Raise(exception).    *)
(***************************************************************************)
EXTENDS Integers, Sequences, FiniteSets, TLC

VARIABLES
    raw,        \* DateGames.raw: the document
    date,       \* DateGames.date
    pc,         \* "new" before __init__, "ready" once constructed, "failed" if __init__ raised
    games,      \* DateGames.games
    _records,   \* DateGames._records
    exc,        \* the exception the last call raised, None if it returned
    out,        \* what the last records() call returned
    prev,       \* what the records() call before it returned
    calls,      \* number of records() calls since the last other call (capped at 2)
    parses,     \* number of parse() calls so far (names the objects a parse allocates)
    arg,        \* input of the function applied on its own
    res,        \* its result
    rs,         \* Team.records() of that result
    fn          \* which function has been applied to arg

vars == <<raw, date, pc, games, _records, exc, out, prev, calls, parses, arg, res, rs, fn>>

dgvars == <<raw, date, pc, games, _records, exc, out, prev, calls, parses>>

fnvars == <<arg, res, rs, fn>>

\* ---------------------------------------------------------------- bounds

MaxLen == 3

MaxBatters == 2

MaxGames == 2

MaxParses == 2

\* ---------------------------------------------------------------- values

None == <<>>

Some(v) == <<v>>

Ok(v) == [ok |-> TRUE, val |-> v]

Raise(e, msg) == [ok |-> FALSE, exc |-> e, msg |-> msg]

\* {**a, **b}
Merge(a, b) == [k \in DOMAIN a \cup DOMAIN b |-> IF k \in DOMAIN b THEN b[k] ELSE a[k]]

\* name = v, followed by the statements F that use the name
Let(v, F(_)) == F(v)

\* name = a call that may raise, followed by the statements F that use the
\* name: the exception of the call leaves the caller at once
Then(r, F(_)) == IF r.ok THEN F(r.val) ELSE r

Min(S) == CHOOSE x \in S : \A y \in S : x <= y

Max(S) == CHOOSE x \in S : \A y \in S : x >= y

\* ---------------------------------------------------------------- text

DigitChars == <<"0", "1", "2", "3", "4", "5", "6", "7", "8", "9">>

UpperChars == <<"A", "B", "C", "D", "E", "F", "G", "H", "I", "J", "K", "L", "M",
                "N", "O", "P", "Q", "R", "S", "T", "U", "V", "W", "X", "Y", "Z">>

LowerChars == <<"a", "b", "c", "d", "e", "f", "g", "h", "i", "j", "k", "l", "m",
                "n", "o", "p", "q", "r", "s", "t", "u", "v", "w", "x", "y", "z">>

Whitespace == {" ", "\n", "\t"}

IsDigit(c) == \E k \in DOMAIN DigitChars : DigitChars[k] = c

DigitVal(c) == (CHOOSE k \in DOMAIN DigitChars : DigitChars[k] = c) - 1

\* str.lower()
lower(s) ==
    [i \in DOMAIN s |->
        IF \E k \in DOMAIN UpperChars : UpperChars[k] = s[i]
        THEN LowerChars[CHOOSE k \in DOMAIN UpperChars : UpperChars[k] = s[i]]
        ELSE s[i]]

\* str.upper()
upper(s) ==
    [i \in DOMAIN s |->
        IF \E k \in DOMAIN LowerChars : LowerChars[k] = s[i]
        THEN UpperChars[CHOOSE k \in DOMAIN LowerChars : LowerChars[k] = s[i]]
        ELSE s[i]]

\* sub in s
Contains(sub, s) ==
    \E i \in 1..(Len(s) - Len(sub) + 1) : SubSeq(s, i, i + Len(sub) - 1) = sub

\* str.strip()
strip(s) ==
    LET idx == {i \in DOMAIN s : s[i] \notin Whitespace}
    IN  IF idx = {} THEN <<>> ELSE SubSeq(s, Min(idx), Max(idx))

\* str.isspace()
isspace(s) == s # <<>> /\ \A i \in DOMAIN s : s[i] \in Whitespace

\* str.split(sep) with a one-character separator
RECURSIVE split(_, _)
split(s, sep) ==
    IF \E i \in DOMAIN s : s[i] = sep
    THEN LET i == Min({j \in DOMAIN s : s[j] = sep})
         IN  <<SubSeq(s, 1, i - 1)>> \o split(SubSeq(s, i + 1, Len(s)), sep)
    ELSE <<s>>

\* str.splitlines(): the pieces between line breaks, without a last empty piece
splitlines(s) ==
    LET ps == split(s, "\n")
    IN  IF ps[Len(ps)] = <<>> THEN SubSeq(ps, 1, Len(ps) - 1) ELSE ps

\* str.replace(ch, "")
RECURSIVE remove(_, _)
remove(s, ch) ==
    IF s = <<>> THEN <<>>
    ELSE (IF s[1] = ch THEN <<>> ELSE <<s[1]>>) \o remove(Tail(s), ch)

\* the value of a run of decimal digits
RECURSIVE digits_value(_)
digits_value(s) ==
    IF s = <<>> THEN 0
    ELSE 10 * digits_value(SubSeq(s, 1, Len(s) - 1)) + DigitVal(s[Len(s)])

\* int(x) of an attribute value: None is a TypeError, text that is not a
\* run of digits (surrounding whitespace allowed) is a ValueError
int(x) ==
    IF x = None THEN Raise("TypeError", "int() argument must be a string or a number")
    ELSE LET s == strip(x[1])
         IN  IF s # <<>> /\ \A i \in DOMAIN s : IsDigit(s[i])
             THEN Ok(digits_value(s))
             ELSE Raise("ValueError", "invalid literal for int()")

\* extract_int returning a falsy match value as None
extract_int_nonzero(str) ==
    LET ds == {i \in DOMAIN str : IsDigit(str[i])}
    IN  IF ds = {} THEN None
        ELSE LET a == Min(ds)
                 b == Max({j \in a..Len(str) : \A k \in a..j : IsDigit(str[k])})
                 v == digits_value(SubSeq(str, a, b))
             IN  IF v = 0 THEN None ELSE Some(v)

\* extract_int
extract_int(str) ==
    LET ds == {i \in DOMAIN str : IsDigit(str[i])}
    IN  IF ds = {} THEN None
        ELSE LET a == Min(ds)
                 b == Max({j \in a..Len(str) : \A k \in a..j : IsDigit(str[k])})
             IN  Some(digits_value(SubSeq(str, a, b)))

\* ---------------------------------------------------------------- Player

\* Player._clean_player
Player_clean_player(p_str) ==
    LET pl == splitlines(p_str)
        kept == SelectSeq(pl, LAMBDA p : p # <<>> /\ ~isspace(p))
    IN  [i \in DOMAIN kept |-> strip(kept[i])]

\* Player._parse_name, a the link element of the region
Player_parse_name(a) ==
    IF a.desktop # None THEN strip(a.desktop[1]) ELSE strip(a.text)

\* Player._parse_mlb_id
Player_parse_mlb_id(a) == a.mlb

\* Player.parse: container.select_one("a") is None when the region has no link
Player_parse(container) ==
    IF container.a = None
    THEN Raise("AttributeError", "'NoneType' object has no attribute 'select_one'")
    ELSE Then(int(Player_parse_mlb_id(container.a[1])), LAMBDA mlb_id :
             Ok([name |-> Player_parse_name(container.a[1]), mlb_id |-> mlb_id]))

\* Player.record
Player_record(self) ==
    [ID |-> self.mlb_id, Name |-> self.name, Handedness |-> self.handedness]

\* ---------------------------------------------------------------- Batter

\* Batter._parse_order
Batter_parse_order(i_str) == extract_int(i_str)

\* Batter._parse_handedness
Batter_parse_handedness(hand_str) == remove(remove(hand_str, "("), ")")

\* Batter._parse_position
Batter_parse_position(pos_str) == pos_str

\* Batter.__init__ / Batter.parse
Batter(soup) ==
    Let(Player_clean_player(soup.text), LAMBDA p :
        IF p = <<>> THEN Raise("IndexError", "list index out of range")
        ELSE Let(split(p[Len(p)], " "), LAMBDA toks :
            IF Len(toks) # 2
            THEN Raise("ValueError", "values to unpack (expected 2)")
            ELSE Then(Player_parse(soup), LAMBDA base :
                Ok([order |-> Batter_parse_order(p[1]),
                    name |-> Some(base.name),
                    handedness |-> Some(Batter_parse_handedness(toks[1])),
                    mlb_id |-> Some(base.mlb_id),
                    position |-> Some(Batter_parse_position(toks[2]))]))))

\* Batter.record
Batter_record(self) ==
    Merge(Player_record(self), [Position |-> self.position, Order |-> self.order])

\* ---------------------------------------------------------------- Pitcher

TBD == <<"T", "B", "D">>

\* Pitcher._is_valid_pitcher
Pitcher_is_valid_pitcher(html) == ~Contains(TBD, html.text)

\* Pitcher._parse_handedness
Pitcher_parse_handedness(hand_str) == remove(remove(hand_str, "("), ")")

\* Pitcher._parse_position
Pitcher_parse_position == <<"P">>

\* Pitcher.parse
Pitcher_parse(soup) ==
    Then(Player_parse(soup), LAMBDA base :
        Let(Player_clean_player(soup.text), LAMBDA p :
            IF p = <<>> THEN Raise("IndexError", "list index out of range")
            ELSE Ok([name |-> Some(base.name),
                     handedness |-> Some(Pitcher_parse_handedness(p[Len(p)])),
                     mlb_id |-> Some(base.mlb_id),
                     position |-> Some(Pitcher_parse_position)])))

\* Pitcher.__init__ giving the placeholder the pitcher position
Pitcher_placeholder_P(soup) ==
    IF ~Pitcher_is_valid_pitcher(soup)
    THEN Ok([name |-> None, handedness |-> None, mlb_id |-> None,
             position |-> Some(Pitcher_parse_position)])
    ELSE Pitcher_parse(soup)

\* Pitcher.__init__
Pitcher(soup) ==
    IF ~Pitcher_is_valid_pitcher(soup)
    THEN Ok([name |-> None, handedness |-> None, mlb_id |-> None, position |-> None])
    ELSE Pitcher_parse(soup)

\* Pitcher.record
Pitcher_record(self) ==
    Merge(Player_record(self), [Position |-> self.position])

\* ---------------------------------------------------------------- Team

NoLineupReleased ==
    <<"n", "o", " ", "l", "i", "n", "e", "u", "p", " ",
      "r", "e", "l", "e", "a", "s", "e", "d">>

\* Team._is_valid_rotation without lower()
Team_is_valid_rotation_case_sensitive(container) ==
    ~Contains(NoLineupReleased, container.text)

\* Team._is_valid_rotation
Team_is_valid_rotation(container) ==
    ~Contains(NoLineupReleased, lower(container.text))

\* Team._parse_abbreviation
Team_parse_abbreviation(container) ==
    LET parts == split(container.href, "/")
    IN  upper(parts[Len(parts)])

\* Team._parse_name
Team_parse_name(container) == strip(container.div)

\* Team._parse_pitcher
Team_parse_pitcher(html) == Pitcher(html)

\* Team._parse_rotation: after the loop the name batter is bound to the last
\* Batter built, and unbound if the loop body never ran
Team_parse_rotation(container) ==
    IF ~Team_is_valid_rotation(container) THEN Ok(<<>>)
    ELSE Let([i \in DOMAIN container.players |-> Batter(container.players[i])],
             LAMBDA bs :
        IF \E i \in DOMAIN bs : ~bs[i].ok
        THEN bs[Min({i \in DOMAIN bs : ~bs[i].ok})]
        ELSE IF bs = <<>>
        THEN Raise("UnboundLocalError",
                   "local variable 'batter' referenced before assignment")
        ELSE Let([i \in DOMAIN bs |-> bs[i].val], LAMBDA rotation :
                Ok(Append(rotation, rotation[Len(rotation)]))))

\* Team._add_record
Team_add_record(self, player_record) ==
    Merge(("Team Name" :> self.name) @@ ("Team Abbreviation" :> self.abbreviation),
          player_record)

\* Team.records without the pitcher's record
Team_records_batters_only(self) ==
    LET rs0 == [i \in DOMAIN self.rotation |-> Batter_record(self.rotation[i])]
    IN  [i \in DOMAIN rs0 |-> Team_add_record(self, rs0[i])]

\* Team.records
Team_records(self) ==
    LET rs0 == <<Pitcher_record(self.pitcher)>>
               \o [i \in DOMAIN self.rotation |-> Batter_record(self.rotation[i])]
    IN  [i \in DOMAIN rs0 |-> Team_add_record(self, rs0[i])]

\* Team.__init__ / Team.parse; id stands for the identity of the new object
Team(team_dict, id) ==
    Then(Team_parse_pitcher(team_dict.pitcher), LAMBDA pitcher :
        Then(Team_parse_rotation(team_dict.rotation), LAMBDA rotation :
            Ok([id |-> id,
                name |-> Team_parse_name(team_dict.ids),
                abbreviation |-> Team_parse_abbreviation(team_dict.ids),
                pitcher |-> pitcher,
                rotation |-> rotation])))

\* ---------------------------------------------------------------- Game

\* Game._parse_time
Game_parse_time(container) ==
    IF container.divs = <<>> THEN Raise("IndexError", "list index out of range")
    ELSE Ok(strip(container.divs[Len(container.divs)]))

\* Game._parse_farenheit
Game_parse_farenheit(div) == extract_int(div.text)

\* Game._parse_precipitation
Game_parse_precipitation(div) == extract_int(div.text)

\* Game._parse_header: cols[0], cols[1] and cols[-1] of the first row, and the
\* pitcher regions of the second row unpacked into two names
Game_parse_header(html) ==
    IF Len(html.cols) < 2 THEN Raise("IndexError", "list index out of range")
    ELSE IF Len(html.players) # 2
    THEN Raise("ValueError", "values to unpack (expected 2)")
    ELSE Ok([game |-> [time |-> html.cols[2]],
             teams |-> [home |-> [ids |-> html.cols[1], pitcher |-> html.players[1]],
                        away |-> [ids |-> html.cols[Len(html.cols)],
                                  pitcher |-> html.players[2]]]])

\* Game._parse_body
Game_parse_body(html) ==
    IF Len(html.cols) # 2
    THEN Raise("ValueError", "values to unpack (expected 2)")
    ELSE Ok([teams |-> [home |-> [rotation |-> html.cols[1]],
                        away |-> [rotation |-> html.cols[2]]]])

\* Game._parse_footer
Game_parse_footer(html) ==
    IF Len(html.divs) < 2 THEN Raise("IndexError", "list index out of range")
    ELSE Ok([game |-> [farenheit |-> html.divs[1], precipitation |-> html.divs[2]]])

\* Game._extract_object_html
Game_extract_object_html(soup) ==
    Then(Game_parse_header(soup.header), LAMBDA header_html :
        Then(Game_parse_body(soup.body), LAMBDA body_html :
            Then(Game_parse_footer(soup.footer), LAMBDA footer_html :
                Ok([game |-> Merge(header_html.game, footer_html.game),
                    teams |-> [t \in {"home", "away"} |->
                                  Merge(header_html.teams[t], body_html.teams[t])]]))))

\* Game._parse_game
Game_parse_game(game_dict) ==
    Then(Game_parse_time(game_dict.time), LAMBDA time :
        Ok([time |-> time,
            farenheit |-> Game_parse_farenheit(game_dict.farenheit),
            precipitation |-> Game_parse_precipitation(game_dict.precipitation)]))

\* Game.__init__ / Game.parse / Game._parse_teams; id stands for the identity
\* of the new Game, and its two Teams are new objects too
Game(soup, id) ==
    Then(Game_extract_object_html(soup), LAMBDA object_html :
        Then(Team(object_html.teams["home"], <<id, "home">>), LAMBDA home :
            Then(Team(object_html.teams["away"], <<id, "away">>), LAMBDA away :
                Then(Game_parse_game(object_html.game), LAMBDA g :
                    Ok([id |-> id, home |-> home, away |-> away,
                        time |-> g.time, farenheit |-> g.farenheit,
                        precipitation |-> g.precipitation])))))

\* Game._add_record
Game_add_record(self, team_record, opp, is_home) ==
    Merge(("Time" :> self.time) @@ ("Farenheit" :> self.farenheit)
          @@ ("Precipitation" :> self.precipitation) @@ ("Is Home" :> is_home)
          @@ ("Opponent Name" :> opp.name)
          @@ ("Opponent Abbreviation" :> opp.abbreviation),
          team_record)

\* add_team_records comparing the teams by name
Game_add_team_records_by_name(self, team, opp) ==
    LET trs == Team_records(team)
    IN  [i \in DOMAIN trs |->
            Game_add_record(self, trs[i], opp, team.name = self.home.name)]

\* add_team_records of Game.records; team == self.home compares identities
Game_add_team_records(self, team, opp) ==
    LET trs == Team_records(team)
    IN  [i \in DOMAIN trs |-> Game_add_record(self, trs[i], opp, team.id = self.home.id)]

\* Game.records
Game_records(self) ==
    Game_add_team_records(self, self.home, self.away)
    \o Game_add_team_records(self, self.away, self.home)

\* ---------------------------------------------------------------- DateGames

\* DateGames._validate_games keeping every card
DateGames_validate_games_all(gs) == gs

\* DateGames._validate_games
DateGames_validate_games(gs) == SelectSeq(gs, LAMBDA g : g.league # None)

\* DateGames._find_games: the cards of the first container that has a lineups
\* section
DateGames_find_games(soup) ==
    LET with == {i \in DOMAIN soup : soup[i].lineups # None}
    IN  IF with = {} THEN <<>>
        ELSE DateGames_validate_games(soup[Min(with)].lineups[1])

\* DateGames._scrape_games; gen names the parse() call that allocates the Games
DateGames_scrape_games(game_containers, gen) ==
    Let([i \in DOMAIN game_containers |-> Game(game_containers[i], <<gen, i>>)],
        LAMBDA gs :
        IF \E i \in DOMAIN gs : ~gs[i].ok
        THEN gs[Min({i \in DOMAIN gs : ~gs[i].ok})]
        ELSE Ok([i \in DOMAIN gs |-> gs[i].val]))

\* DateGames.parse binding self.games on every call
DateGames_parse_rebind(self, gen) ==
    Let(DateGames_find_games(self.raw), LAMBDA game_containers :
        IF game_containers = <<>>
        THEN Raise("ValueError", "No games discovered on this date.")
        ELSE Then(DateGames_scrape_games(game_containers, gen), LAMBDA gs :
                Ok([ret |-> gs, games |-> gs])))

\* DateGames.parse: what it returns and what it leaves in self.games
DateGames_parse(self, gen) ==
    Let(DateGames_find_games(self.raw), LAMBDA game_containers :
        IF game_containers = <<>>
        THEN Raise("ValueError", "No games discovered on this date.")
        ELSE Then(DateGames_scrape_games(game_containers, gen), LAMBDA gs :
                Ok([ret |-> gs,
                    games |-> IF self.games = <<>> THEN gs ELSE self.games])))

\* the else branch of DateGames.records: the records of every game, each
\* stamped with the date
RECURSIVE DateGames_flatten(_, _)
DateGames_flatten(gs, d) ==
    IF gs = <<>> THEN <<>>
    ELSE LET grs == Game_records(gs[1])
         IN  [i \in DOMAIN grs |-> Merge(grs[i], [Date |-> d])]
             \o DateGames_flatten(Tail(gs), d)

\* DateGames.records extending the cache on every call
DateGames_records_extend(self) ==
    LET records == self._records \o DateGames_flatten(self.games, self.date)
    IN  [ret |-> records, _records |-> records]

\* DateGames.records: what it returns and what it leaves in self._records
DateGames_records(self) ==
    IF self._records # <<>>
    THEN [ret |-> self._records, _records |-> self._records]
    ELSE LET records == DateGames_flatten(self.games, self.date)
         IN  [ret |-> records, _records |-> records]

\* ---------------------------------------------------------------- inputs

NL == <<"\n">>

\* one line of a prettified region
Line(s) == <<" ">> \o s \o NL

\* get_text() of a player region: an order line, a name line, a stat line
PlayerText(order, name, stat) == NL \o Line(order) \o Line(name) \o Line(stat)

Link(text, desktop, mlb) == Some([text |-> text, desktop |-> desktop, mlb |-> mlb])

\* pitcher regions
PitcherTBD == [text |-> NL \o Line(TBD), a |-> None]

PitcherTBDLinked ==
    [text |-> NL \o Line(<<"T", "B", "D", "R">>), a |-> Link(TBD, None, Some(<<"x", "1">>))]

PitcherLowerTbd == [text |-> NL \o Line(<<"t", "b", "d">>), a |-> None]

PitcherCole ==
    [text |-> NL \o Line(<<"C", "o", "l", "e">>) \o Line(<<"(", "R", ")">>),
     a |-> Link(<<" ", "C", "o", "l", "e", " ">>, None, Some(<<"5", "4", "3", "0", "3", "7">>))]

PitcherDeGrom ==
    [text |-> NL \o Line(<<"d", "e", "G", "r", "o", "m">>) \o Line(<<"J", ".", " ", "d", "G">>) \o Line(<<"(", "R", ")">>),
     a |-> Link(<<" ", "d", "e", "G", "r", "o", "m", " ", "J", ".", " ", "d", "G", " ">>, Some(<<" ", "d", "e", "G", "r", "o", "m", " ">>), Some(<<"5", "9", "4", "7", "9", "8">>))]

PitcherBadId ==
    [text |-> NL \o Line(<<"O", "h", "t", "a", "n", "i">>) \o Line(<<"(", "R", ")">>),
     a |-> Link(<<"O", "h", "t", "a", "n", "i">>, None, Some(<<"x", "1">>))]

PitcherNoId ==
    [text |-> NL \o Line(<<"S", "a", "l", "e">>) \o Line(<<"(", "L", ")">>),
     a |-> Link(<<"S", "a", "l", "e">>, None, None)]

PitcherRegions ==
    {PitcherTBD, PitcherTBDLinked, PitcherLowerTbd, PitcherCole, PitcherDeGrom,
     PitcherBadId, PitcherNoId}

\* batter regions
BatterRegion(i) ==
    [text |-> PlayerText(<<DigitChars[i + 1]>>, <<"B", DigitChars[i + 1]>>, <<"(", "R", ")", " ", "R", "F">>),
     a |-> Link(<<"B", DigitChars[i + 1]>>, None, Some(<<"6", "0", DigitChars[i + 1]>>))]

BatterNoOrder ==
    [text |-> PlayerText(<<>>, <<"S", "t", "a", "n", "t", "o", "n">>, <<"(", "R", ")", " ", "D", "H">>),
     a |-> Link(<<"S", "t", "a", "n", "t", "o", "n">>, None, Some(<<"5", "1", "9", "3", "1", "7">>))]

BatterOneToken ==
    [text |-> PlayerText(<<"3">>, <<"H", "i", "c", "k", "s">>, <<"(", "S", ")">>),
     a |-> Link(<<"H", "i", "c", "k", "s">>, None, Some(<<"5", "4", "3", "3", "0", "5">>))]

BatterRegions == {BatterRegion(1), BatterRegion(2), BatterNoOrder, BatterOneToken}

\* rotation regions
RECURSIVE TextOf(_)
TextOf(players) ==
    IF players = <<>> THEN NL ELSE players[1].text \o TextOf(Tail(players))

Released(players) == [text |-> TextOf(players), players |-> players]

Unreleased(marker, players) ==
    [text |-> NL \o Line(marker) \o TextOf(players), players |-> players]

MarkerTitle == <<"N", "o", " ", "L", "i", "n", "e", "u", "p", " ", "R", "e", "l", "e", "a", "s", "e", "d">>

MarkerUpper == <<"N", "O", " ", "L", "I", "N", "E", "U", "P", " ", "R", "E", "L", "E", "A", "S", "E", "D">>

MarkerMixed == <<"n", "O", " ", "l", "I", "N", "E", "U", "P", " ", "r", "E", "L", "E", "A", "S", "E", "d">>

SeqsUpTo(S, n) == UNION {[1..k -> S] : k \in 0..n}

RotationRegions ==
    {Released(ps) : ps \in SeqsUpTo(BatterRegions, MaxBatters)}
    \cup {Unreleased(MarkerTitle, <<>>), Unreleased(MarkerUpper, <<>>),
          Unreleased(MarkerMixed, <<>>), Unreleased(NoLineupReleased, <<>>),
          Unreleased(MarkerTitle, <<BatterOneToken>>),
          Unreleased(<<"N", "o", " ", "L", "i", "n", "e", "u", "p">>, <<>>)}

\* identity columns and the time column of a card header
IdsNYY == [div |-> <<" ", "Y", "a", "n", "k", "e", "e", "s", " ">>, href |-> <<"/", "t", "e", "a", "m", "/", "n", "y", "y">>]

IdsBOS == [div |-> <<" ", "R", "e", "d", " ", "S", "o", "x", " ">>, href |-> <<"/", "t", "e", "a", "m", "/", "b", "o", "s">>]

TimeCol == [divs |-> <<<<"T", "i", "m", "e">>, <<" ", "7", ":", "0", "5", " ", "p", "m", " ">>>>]

TeamDicts ==
    [ids : {IdsNYY}, pitcher : PitcherRegions, rotation : RotationRegions]

\* the weather value elements of a card footer
Weather72 == <<[text |-> <<"7", "2", "°">>], [text |-> NL]>>

Weather0 == <<[text |-> <<"0">>], [text |-> <<"1", "0", "%">>]>>

MLB == Some(<<"m", "l", "b">>)

Card(league, cols, pitchers, rotations, weather) ==
    [league |-> league,
     header |-> [cols |-> cols, players |-> pitchers],
     body |-> [cols |-> rotations],
     footer |-> [divs |-> weather]]

Cols == <<IdsNYY, TimeCol, IdsBOS>>

\* rotation regions of the documents: the marker, or k batters
Lineup(k) == Released([i \in 1..k |-> BatterRegion(i)])

NoLineup == Unreleased(MarkerTitle, <<>>)

GoodCards ==
    {Card(MLB, Cols, <<PitcherCole, PitcherTBD>>, <<hr, NoLineup>>, Weather72) :
        hr \in {NoLineup} \cup {Lineup(k) : k \in 0..MaxBatters}}
    \cup {Card(MLB, Cols, <<PitcherTBD, PitcherDeGrom>>,
               <<Lineup(MaxBatters), Lineup(1)>>, Weather0),
          Card(MLB, <<IdsNYY, TimeCol, IdsNYY>>, <<PitcherCole, PitcherCole>>,
               <<Lineup(1), NoLineup>>, Weather0)}

MalformedCards ==
    {Card(MLB, Cols, <<PitcherCole>>, <<NoLineup, NoLineup>>, Weather72),
     Card(MLB, Cols, <<PitcherCole, PitcherTBD>>,
          <<NoLineup, NoLineup, NoLineup>>, Weather72),
     Card(MLB, Cols, <<PitcherBadId, PitcherTBD>>, <<NoLineup, NoLineup>>, Weather72),
     Card(MLB, Cols, <<PitcherNoId, PitcherTBD>>, <<NoLineup, NoLineup>>, Weather72)}

\* cards without the data-league attribute
InvalidCards ==
    {Card(None, Cols, <<PitcherCole, PitcherTBD>>, <<Lineup(1), NoLineup>>, Weather72),
     Card(None, Cols, <<PitcherCole>>, <<NoLineup>>, Weather72)}

Cards == GoodCards \cup MalformedCards \cup InvalidCards

NoLineups == [lineups |-> None]

Lineups(cards) == [lineups |-> Some(cards)]

\* a document is the sequence of its .ccm-page > .container elements
Docs ==
    LET cs == {Lineups(cards) : cards \in SeqsUpTo(Cards, MaxGames)}
        decoy == Lineups(<<Card(MLB, Cols, <<PitcherCole, PitcherCole>>,
                                <<NoLineup, NoLineup>>, Weather0)>>)
        c1 == {Lineups(cards) : cards \in SeqsUpTo(Cards, 1)}
    IN  {<<NoLineups>>} \cup {<<c>> : c \in cs} \cup {<<NoLineups, c>> : c \in c1}
        \cup {<<c, decoy>> : c \in c1}

Dates == {"2021-03-17"}

Alphabet == {"0", "2", "7", " ", "a", "°"}

Strings == SeqsUpTo(Alphabet, MaxLen)

\* ---------------------------------------------------------------- DateGames calls

Idle == arg = <<>> /\ res = <<>> /\ rs = <<>> /\ fn = "none"

Init ==
    /\ raw \in Docs
    /\ date \in Dates
    /\ pc = "new"
    /\ games = <<>>
    /\ _records = <<>>
    /\ exc = None
    /\ out = <<>>
    /\ prev = <<>>
    /\ calls = 0
    /\ parses = 0
    /\ Idle

\* DateGames.__init__(date_str, parse)
Construct(parse) ==
    /\ pc = "new"
    /\ IF parse
       THEN \E r \in {DateGames_parse([raw |-> raw, games |-> <<>>], parses + 1)} :
                /\ parses' = parses + 1
                /\ IF r.ok
                   THEN pc' = "ready" /\ games' = r.val.ret /\ exc' = None
                   ELSE pc' = "failed" /\ games' = <<>>
                        /\ exc' = Some([exc |-> r.exc, msg |-> r.msg])
       ELSE pc' = "ready" /\ games' = <<>> /\ exc' = None /\ parses' = parses
    /\ _records' = <<>>
    /\ UNCHANGED <<raw, date, out, prev, calls>>
    /\ UNCHANGED fnvars

\* a call of DateGames.parse() on the constructed object
Parse ==
    /\ pc = "ready"
    /\ parses < MaxParses
    /\ \E r \in {DateGames_parse([raw |-> raw, games |-> games], parses + 1)} :
           IF r.ok
           THEN games' = r.val.games /\ exc' = None
           ELSE games' = games /\ exc' = Some([exc |-> r.exc, msg |-> r.msg])
    /\ parses' = parses + 1
    /\ calls' = 0
    /\ UNCHANGED <<raw, date, pc, _records, out, prev>>
    /\ UNCHANGED fnvars

\* a call of DateGames.records() on the constructed object
Records ==
    /\ pc = "ready"
    /\ \E r \in {DateGames_records([games |-> games, _records |-> _records,
                                    date |-> date])} :
           /\ out' = r.ret
           /\ _records' = r._records
    /\ prev' = out
    /\ calls' = IF calls < 2 THEN calls + 1 ELSE 2
    /\ exc' = None
    /\ UNCHANGED <<raw, date, pc, games, parses>>
    /\ UNCHANGED fnvars

Next ==
    \/ \E parse \in BOOLEAN : Construct(parse)
    \/ Parse
    \/ Records

Spec == Init /\ [][Next]_vars

\* ---------------------------------------------------------------- Team calls

NoDateGames ==
    /\ raw = <<>>
    /\ date = ""
    /\ pc = "new"
    /\ games = <<>>
    /\ _records = <<>>
    /\ exc = None
    /\ out = <<>>
    /\ prev = <<>>
    /\ calls = 0
    /\ parses = 0

InitTeam ==
    /\ NoDateGames
    /\ arg \in TeamDicts
    /\ res = <<>>
    /\ rs = <<>>
    /\ fn = "none"

\* Pitcher(arg.pitcher)
ApplyPitcher ==
    /\ fn = "none"
    /\ res' = Pitcher(arg.pitcher)
    /\ fn' = "Pitcher"
    /\ UNCHANGED <<arg, rs>>
    /\ UNCHANGED dgvars

\* Team._parse_rotation(arg.rotation)
ApplyParseRotation ==
    /\ fn = "none"
    /\ res' = Team_parse_rotation(arg.rotation)
    /\ fn' = "_parse_rotation"
    /\ UNCHANGED <<arg, rs>>
    /\ UNCHANGED dgvars

\* Team(arg)
ApplyTeam ==
    /\ fn = "none"
    /\ res' = Team(arg, 1)
    /\ fn' = "Team"
    /\ UNCHANGED <<arg, rs>>
    /\ UNCHANGED dgvars

\* Team.records() of the Team just built
ApplyTeamRecords ==
    /\ fn = "Team"
    /\ res.ok
    /\ rs' = Team_records(res.val)
    /\ fn' = "records"
    /\ UNCHANGED <<arg, res>>
    /\ UNCHANGED dgvars

NextTeam == ApplyPitcher \/ ApplyParseRotation \/ ApplyTeam \/ ApplyTeamRecords

SpecTeam == InitTeam /\ [][NextTeam]_vars

\* ---------------------------------------------------------------- extract_int calls

InitInt ==
    /\ NoDateGames
    /\ arg \in Strings
    /\ res = <<>>
    /\ rs = <<>>
    /\ fn = "none"

\* extract_int(arg)
ApplyExtractInt ==
    /\ fn = "none"
    /\ res' = extract_int(arg)
    /\ fn' = "extract_int"
    /\ UNCHANGED <<arg, rs>>
    /\ UNCHANGED dgvars

\* the batter region whose order line is arg
OrderRegion(order) ==
    [text |-> PlayerText(order, <<"J", "u", "d", "g", "e">>,
                         <<"(", "R", ")", " ", "R", "F">>),
     a |-> Link(<<"J", "u", "d", "g", "e">>, None, Some(<<"5", "9", "2">>))]

\* Batter(region) and its record, the region's order line being arg
ApplyBatter ==
    /\ fn = "none"
    /\ res' = Batter(OrderRegion(arg))
    /\ rs' = IF res'.ok THEN <<Batter_record(res'.val)>> ELSE <<>>
    /\ fn' = "Batter"
    /\ UNCHANGED arg
    /\ UNCHANGED dgvars

\* Game._parse_game, both weather value elements holding arg
ApplyParseGame ==
    /\ fn = "none"
    /\ res' = Game_parse_game([time |-> TimeCol, farenheit |-> [text |-> arg],
                               precipitation |-> [text |-> arg]])
    /\ fn' = "_parse_game"
    /\ UNCHANGED <<arg, rs>>
    /\ UNCHANGED dgvars

NextInt == ApplyExtractInt \/ ApplyBatter \/ ApplyParseGame

SpecInt == InitInt /\ [][NextInt]_vars

\* ---------------------------------------------------------------- claims on DateGames

\* the players of a team, of a game and of a sequence of games, in the order
\* of the hierarchy
PlayersOfTeam(t) == <<t.pitcher>> \o t.rotation

PlayersOfGame(g) == PlayersOfTeam(g.home) \o PlayersOfTeam(g.away)

RECURSIVE PlayersOf(_)
PlayersOf(gs) ==
    IF gs = <<>> THEN <<>> ELSE PlayersOfGame(gs[1]) \o PlayersOf(Tail(gs))

RECURSIVE PlayerCount(_)
PlayerCount(gs) ==
    IF gs = <<>> THEN 0
    ELSE (Len(gs[1].home.rotation) + 1) + (Len(gs[1].away.rotation) + 1)
         + PlayerCount(Tail(gs))

\* the last call was records(), on an object that holds games
Flattened == pc = "ready" /\ calls >= 1 /\ games # <<>>

\* C1: records() of an object whose extraction succeeded returns one record
\* per player of the hierarchy: as many records as the sum over the games and
\* over both teams of (batters of the rotation + 1 pitcher), the i-th record
\* being the one of the i-th player.
C1_OneRecordPerPlayer ==
    Flattened =>
        /\ Len(out) = PlayerCount(games)
        /\ LET ps == PlayersOf(games)
           IN  /\ Len(ps) = Len(out)
               /\ \A i \in DOMAIN out :
                     /\ out[i]["ID"] = ps[i].mlb_id
                     /\ out[i]["Name"] = ps[i].name
                     /\ out[i]["Position"] = ps[i].position

C1_Witness ==
    /\ Flattened
    /\ Len(games) = 2
    /\ Len(games[1].home.rotation) # Len(games[2].home.rotation)
    /\ Len(out) >= 6

\* the valid cards of a document: the cards of its first lineups section that
\* carry the data-league attribute, in document order
SectionCards(doc) ==
    IF \E i \in DOMAIN doc : doc[i].lineups # None
    THEN doc[CHOOSE i \in DOMAIN doc :
                /\ doc[i].lineups # None
                /\ \A j \in 1..(i - 1) : doc[j].lineups = None].lineups[1]
    ELSE <<>>

RECURSIVE ValidCards(_)
ValidCards(cards) ==
    IF cards = <<>> THEN <<>>
    ELSE IF cards[1].league = None
    THEN ValidCards(Tail(cards))
    ELSE <<cards[1]>> \o ValidCards(Tail(cards))

NoGamesError == [exc |-> "ValueError", msg |-> "No games discovered on this date."]

\* C2: with zero valid cards the extraction fails with the no-games error,
\* and a failure raised for a card is never of the kind of the no-games error.
C2_NoGamesDistinguishable ==
    exc # None =>
        IF ValidCards(SectionCards(raw)) = <<>>
        THEN exc[1] = NoGamesError
        ELSE exc[1].exc # NoGamesError.exc

\* C3: two consecutive records() calls return the same records.
C3_RecordsIdempotent ==
    (pc = "ready" /\ calls = 2) => out = prev

C3_Witness == pc = "ready" /\ calls = 2 /\ Len(out) >= 3 /\ _records = out

\* the last call was __init__ with parse, or parse(), and it returned
ParseReturned == pc = "ready" /\ parses >= 1 /\ calls = 0 /\ exc = None

\* C6: after a successful parse() games holds the Game of each valid card, in
\* document order, and nothing else; a card without data-league is never
\* extracted, so only a valid card can make the extraction fail.
C6_OneGamePerValidCard ==
    LET valid == ValidCards(SectionCards(raw))
    IN  /\ ParseReturned =>
              /\ Len(games) = Len(valid)
              /\ \A i \in DOMAIN games :
                    LET g == Game(valid[i], games[i].id)
                    IN  g.ok /\ games[i] = g.val
        /\ (exc # None /\ exc[1] # NoGamesError) =>
              \E i \in DOMAIN valid : ~Game(valid[i], <<parses, i>>).ok

C6_Witness ==
    /\ ParseReturned
    /\ Len(games) = 1
    /\ Len(raw) = 1
    /\ Len(raw[1].lineups[1]) = 2
    /\ raw[1].lineups[1][1].league = None
    /\ ~Game(raw[1].lineups[1][1], <<1, 1>>).ok

\* the index in the flattened records before the first record of game i
RECURSIVE Offset(_, _)
Offset(gs, i) == IF i = 1 THEN 0 ELSE Offset(gs, i - 1) + Len(PlayersOfGame(gs[i - 1]))

\* C7: in the records of a game, a home player's record has Is Home true and
\* the away team as opponent, an away player's record has Is Home false and
\* the home team as opponent; a record carries its own team's name and
\* abbreviation, and the game's time, temperature and precipitation.
C7_OpponentCrossReference ==
    Flattened =>
        \A i \in DOMAIN games :
            LET g == games[i]
                nh == Len(PlayersOfTeam(g.home))
                na == Len(PlayersOfTeam(g.away))
                base == Offset(games, i)
            IN  /\ base + nh + na <= Len(out)
                /\ \A k \in 1..(nh + na) :
                      LET r == out[base + k]
                          mine == IF k <= nh THEN g.home ELSE g.away
                          opp == IF k <= nh THEN g.away ELSE g.home
                      IN  /\ r["Is Home"] = (k <= nh)
                          /\ r["Opponent Name"] = opp.name
                          /\ r["Opponent Abbreviation"] = opp.abbreviation
                          /\ r["Team Name"] = mine.name
                          /\ r["Team Abbreviation"] = mine.abbreviation
                          /\ r["Time"] = g.time
                          /\ r["Farenheit"] = g.farenheit
                          /\ r["Precipitation"] = g.precipitation

C7_Witness ==
    /\ Flattened
    /\ Len(games) = 2
    /\ games[1].home.name = games[1].away.name
    /\ games[2].home.name # games[2].away.name
    /\ games[1].farenheit # games[2].farenheit
    /\ Len(games[2].home.rotation) >= 1

\* C10: once the object holds games, no parse() or records() call changes
\* games or any object in it, and a populated cache holds the flattening of
\* the current games.
C10_GamesFrozen ==
    /\ [][(pc = "ready" /\ games # <<>>) => games' = games]_vars
    /\ [](_records # <<>> => _records = DateGames_flatten(games, date))

C10_Witness ==
    /\ pc = "ready"
    /\ parses >= 2
    /\ exc = None
    /\ games # <<>>
    /\ games[1].id[1] = 1
    /\ _records # <<>>

\* ---------------------------------------------------------------- claims on Team and Pitcher

\* the text holds the letters T, B, D in a row
HasTBD(text) ==
    \E i \in 1..(Len(text) - 2) :
        text[i] = "T" /\ text[i + 1] = "B" /\ text[i + 2] = "D"

\* the text holds "no lineup released" in some letter case
HasMarker(text) ==
    \E i \in 1..(Len(text) - Len(NoLineupReleased) + 1) :
        \A k \in DOMAIN NoLineupReleased :
            text[i + k - 1] \in {NoLineupReleased[k], MarkerUpper[k]}

\* C4: a pitcher region whose text holds TBD gives, without failing, the
\* placeholder Pitcher with name, league ID, handedness and position None; in
\* Team.records() it is one record, with the keys ID, Name, Handedness and
\* Position all None.
C4_PlaceholderPitcher ==
    /\ (fn = "Pitcher" /\ HasTBD(arg.pitcher.text)) =>
          /\ res.ok
          /\ res.val.name = None
          /\ res.val.mlb_id = None
          /\ res.val.handedness = None
          /\ res.val.position = None
    /\ (fn = "records" /\ HasTBD(arg.pitcher.text)) =>
          /\ Len(rs) = 1 + Len(res.val.rotation)
          /\ {"ID", "Name", "Handedness", "Position"} \subseteq DOMAIN rs[1]
          /\ \A k \in {"ID", "Name", "Handedness", "Position"} : rs[1][k] = None
          /\ \A i \in 2..Len(rs) : "Order" \in DOMAIN rs[i]

C4_Witness ==
    /\ fn = "records"
    /\ arg.pitcher = PitcherTBDLinked
    /\ Len(rs) = 3
    /\ rs[1]["Position"] = None

\* C5: a rotation region whose text holds the no-lineup marker in any letter
\* case gives the empty rotation, without failing whatever its player
\* sub-regions are, and the team's records are the pitcher's record alone.
C5_UnreleasedRotationEmpty ==
    /\ (fn = "_parse_rotation" /\ HasMarker(arg.rotation.text)) => res = Ok(<<>>)
    /\ (fn = "Team" /\ HasMarker(arg.rotation.text) /\ Pitcher(arg.pitcher).ok) =>
          res.ok /\ res.val.rotation = <<>>
    /\ (fn = "records" /\ HasMarker(arg.rotation.text)) =>
          Len(rs) = 1 /\ "Order" \notin DOMAIN rs[1]

C5_Witness ==
    /\ fn = "records"
    /\ arg.rotation = Unreleased(MarkerMixed, <<>>)
    /\ Len(rs) = 1

\* C9: a rotation region without the marker whose n player sub-regions each
\* parse gives, without failing, the rotation of exactly those n Batters in
\* document order.
C9_EachBatterOnce ==
    (/\ fn = "_parse_rotation"
     /\ ~HasMarker(arg.rotation.text)
     /\ \A i \in DOMAIN arg.rotation.players : Batter(arg.rotation.players[i]).ok) =>
        /\ res.ok
        /\ Len(res.val) = Len(arg.rotation.players)
        /\ \A i \in DOMAIN arg.rotation.players :
              res.val[i] = Batter(arg.rotation.players[i]).val

\* ---------------------------------------------------------------- claims on extract_int

NoDigit(s) == \A i \in DOMAIN s : s[i] \notin {"0", "1", "2", "3", "4", "5", "6", "7", "8", "9"}

RECURSIVE Pow10(_)
Pow10(n) == IF n = 0 THEN 1 ELSE 10 * Pow10(n - 1)

RECURSIVE PlaceSum(_, _, _)
PlaceSum(s, a, b) ==
    IF a > b THEN 0 ELSE DigitVal(s[a]) * Pow10(b - a) + PlaceSum(s, a + 1, b)

\* a..b is the first maximal run of digits of s
FirstRun(s, a, b) ==
    /\ a <= b
    /\ \A k \in a..b : ~NoDigit(<<s[k]>>)
    /\ \A k \in 1..(a - 1) : NoDigit(<<s[k]>>)
    /\ b = Len(s) \/ NoDigit(<<s[b + 1]>>)

\* C8: extract_int returns the value of the first run of digits of its input
\* and None exactly when the input has no digit; so a batter whose order line
\* has no digit has Order None, a weather element with no digit gives None,
\* and the text 0 gives the integer 0, not None.
C8_ExtractIntAbsentNotZero ==
    /\ fn = "extract_int" =>
          /\ res = None <=> NoDigit(arg)
          /\ res # None =>
                \E a \in DOMAIN arg : \E b \in DOMAIN arg :
                    FirstRun(arg, a, b) /\ res = Some(PlaceSum(arg, a, b))
    /\ (fn = "Batter" /\ NoDigit(arg)) =>
          /\ res.ok
          /\ res.val.order = None
          /\ rs[1]["Order"] = None
    /\ fn = "_parse_game" =>
          /\ res.ok
          /\ NoDigit(arg) => res.val.farenheit = None /\ res.val.precipitation = None
          /\ arg = <<"0">> => res.val.farenheit = Some(0) /\ res.val.precipitation = Some(0)

C8_Witness ==
    /\ fn = "extract_int"
    /\ arg = <<"a", "0", "7">>
    /\ res = Some(7)

====
